---- MODULE Spec2Model ----
(***************************************************************************)
(* Group-chat turn-taking engine of public/scripts/group-chats.js:         *)
(* member activation (activateSwipe, activateListOrder,                    *)
(* activateNaturalOrder, activateImpersonate), the generation sequencer    *)
(* generateGroupWrapper with its completion poll loop, and the handlers    *)
(* that share its module-level flags.                                      *)
(*                                                                         *)
(* A text (message body, display name, textbox content) is a sequence of   *)
(* tokens; the token Punct stands for any run of non-word characters.      *)
(* Character ids are JavaScript array indices (0-based); -1 is the         *)
(* "not found" result of findIndex.                                        *)
(***************************************************************************)
EXTENDS Integers, Sequences, FiniteSets, TLC

\* ------------------------------------------------------------------ bounds
MaxCalls == 2
MaxChat == 3
MaxMembers == 2
MaxEvents == 1
MaxAutoCalls == 3
MaxUpdates == 4

\* --------------------------------------------------------------- constants
Punct == "-"
NoAvatar == ""
Undefined == -2
NotFound == -1
NaN == -1
talkativeness_default == 5
NATURAL == 0
LIST == 1
NoSignal == 0
NoGroup == 0
NobodyBanned == <<>>

\* The character registry (script.js `characters`): avatar is the stable
\* identifier, talkativeness is in tenths, NaN for a malformed value.
characters ==
    << [avatar |-> "a", name |-> <<"A">>, talkativeness |-> 10],
       [avatar |-> "b", name |-> <<"B", "Z">>, talkativeness |-> 0],
       [avatar |-> "c", name |-> <<"A">>, talkativeness |-> NaN] >>

\* "x" is a member identifier whose character is gone from the registry.
Avatars == {"a", "b", "c", "x"}

\* Math.random() outcomes, in tenths, of the half-open interval [0, 1).
Rolls == {0, 5, 9}

\* ------------------------------------------------------------ array helpers
\* Array.prototype.filter: the elements at the kept indices, in order.
FilterIdx(s, kept) ==
    LET f[i \in 0..Len(s)] ==
            IF i = 0 THEN <<>>
            ELSE IF i \in kept THEN Append(f[i - 1], s[i]) ELSE f[i - 1]
    IN f[Len(s)]

Includes(s, v) == \E i \in 1..Len(s) : s[i] = v

\* Array.prototype.indexOf, 0-based, -1 when absent.
IndexOf(s, v) ==
    IF Includes(s, v) THEN (CHOOSE i \in 1..Len(s) : s[i] = v /\ \A j \in 1..(i - 1) : s[j] # v) - 1
    ELSE NotFound

\* utils.js onlyUnique used as a filter callback: keeps first occurrences.
onlyUnique(s) == FilterIdx(s, {i \in 1..Len(s) : IndexOf(s, s[i]) = i - 1})

\* utils.js extractAllWords: the word tokens of a text, in order.
extractAllWords(text) == SelectSeq(text, LAMBDA t : t # Punct)

\* utils.js shuffle: the members rearranged by a permutation of the indices.
shuffle(s, perm) == [i \in 1..Len(s) |-> s[perm[i]]]

Perms(n) == {p \in [1..n -> 1..n] : \A i, j \in 1..n : p[i] = p[j] => i = j}

\* characters.findIndex((y) => y.avatar === x)
findIndex(avatar) ==
    IF \E i \in 1..Len(characters) : characters[i].avatar = avatar
    THEN (CHOOSE i \in 1..Len(characters) : characters[i].avatar = avatar) - 1
    ELSE NotFound

HasCharacter(avatar) == findIndex(avatar) # NotFound
CharOf(avatar) == characters[findIndex(avatar) + 1]
ValidChid(chId) == chId \in 0..(Len(characters) - 1)

\* .map((x) => characters.findIndex(...)).filter((x) => x !== -1)
MapToIds(avatars) ==
    SelectSeq([i \in 1..Len(avatars) |-> findIndex(avatars[i])], LAMBDA x : x # NotFound)

\* --------------------------------------------------------------- resolvers
activateImpersonate(members, randomIndex) == MapToIds(<<members[randomIndex]>>)

\* Requires a last message; the caller handles the empty chat (TypeError).
activateSwipeAnyMatch(members, chatLog) ==
    LET last == chatLog[Len(chatLog)]
        matches == SelectSeq(characters, LAMBDA x : x.name = last.name)
        activatedNames ==
            IF last.original_avatar = NoAvatar
            THEN (IF Len(matches) > 0 THEN <<matches[1].avatar>> ELSE <<>>)
            ELSE <<last.original_avatar>>
    IN MapToIds(activatedNames)

activateSwipeByNameFirst(members, chatLog) ==
    LET last == chatLog[Len(chatLog)]
        matches == SelectSeq(characters, LAMBDA x : x.name = last.name)
        hits == SelectSeq(matches, LAMBDA m : Includes(members, m.avatar))
        activatedNames ==
            IF Len(hits) > 0 THEN <<hits[1].avatar>>
            ELSE IF last.original_avatar = NoAvatar THEN <<>>
            ELSE <<last.original_avatar>>
    IN MapToIds(activatedNames)

activateSwipe(members, chatLog) ==
    LET last == chatLog[Len(chatLog)]
        matches == SelectSeq(characters, LAMBDA x : x.name = last.name)
        hits == SelectSeq(matches, LAMBDA m : Includes(members, m.avatar))
        activatedNames ==
            IF last.original_avatar = NoAvatar
            THEN (IF Len(hits) > 0 THEN <<hits[1].avatar>> ELSE <<>>)
            ELSE <<last.original_avatar>>
    IN MapToIds(activatedNames)

activateListOrderNoDedup(members) == MapToIds(members)

activateListOrderRegistryOrder(members) ==
    SelectSeq([i \in 1..Len(characters) |-> i - 1],
              LAMBDA id : \E k \in 1..Len(members) : findIndex(members[k]) = id)

activateListOrder(members) == MapToIds(onlyUnique(members))

\* bannedUser: a display name, or the falsy NobodyBanned.  lastMessage is
\* <<>> for an empty chat and <<m>> for the last message m.
BannedUser(lastMessage, allowSelfResponses, isUserInput) ==
    IF allowSelfResponses THEN NobodyBanned
    ELSE IF isUserInput THEN NobodyBanned
    ELSE IF Len(lastMessage) = 0 THEN NobodyBanned
    ELSE IF lastMessage[1].is_user THEN NobodyBanned
    ELSE lastMessage[1].name

Eligible(member, bannedUser) ==
    HasCharacter(member) /\ CharOf(member).name # bannedUser

\* A mention pass that lists the mentioned members in member order.
MentionPassMemberOrder(words, i, members, bannedUser) ==
    FilterIdx(members,
              {k \in 1..Len(members) :
                  /\ Eligible(members[k], bannedUser)
                  /\ \E j \in i..Len(words) :
                         Includes(extractAllWords(CharOf(members[k]).name), words[j])})

\* Mention pass: for each input word, the first eligible member whose name
\* contains the word.
RECURSIVE MentionPass(_, _, _, _)
MentionPass(words, i, members, bannedUser) ==
    IF i > Len(words) THEN <<>>
    ELSE LET hit(k) == Eligible(members[k], bannedUser)
                       /\ Includes(extractAllWords(CharOf(members[k]).name), words[i])
             found == FilterIdx(members, {k \in 1..Len(members) : hit(k)})
         IN (IF Len(found) > 0 THEN <<found[1]>> ELSE <<>>)
            \o MentionPass(words, i + 1, members, bannedUser)

Talkativeness(character) ==
    IF character.talkativeness = NaN THEN talkativeness_default ELSE character.talkativeness

\* Chattiness pass over the shuffled members, rolls[i] drawn for position i.
ChattinessPass(shuffled, rolls, bannedUser) ==
    LET keep(i) == Eligible(shuffled[i], bannedUser)
                   /\ Talkativeness(CharOf(shuffled[i])) >= rolls[i]
    IN FilterIdx(shuffled, {i \in 1..Len(shuffled) : keep(i)})

\* Guarantee pass: picks[r] is the 1-based index drawn at retry r.
RECURSIVE GuaranteePass(_, _, _, _)
GuaranteePass(activated, retries, members, picks) ==
    IF ~(Len(activated) = 0 /\ retries + 1 <= Len(members)) THEN activated
    ELSE LET m == members[picks[retries + 1]]
         IN IF ~HasCharacter(m)
            THEN GuaranteePass(activated, retries + 1, members, picks)
            ELSE GuaranteePass(Append(activated, m), retries + 1, members, picks)

activateNaturalOrder(members, input, lastMessage, allowSelfResponses, isUserInput, perm, rolls, picks) ==
    LET bannedUser == BannedUser(lastMessage, allowSelfResponses, isUserInput)
        mentioned == MentionPass(extractAllWords(input), 1, members, bannedUser)
        chatty == ChattinessPass(shuffle(members, perm), rolls, bannedUser)
        activatedMembers == GuaranteePass(mentioned \o chatty, 0, members, picks)
    IN MapToIds(onlyUnique(activatedMembers))

\* extensions.js ModuleWorkerWrapper, constructor (lines 99-102), with the
\* position of each update() call made on it: "none", "skipped" (returned
\* at line 108), "awaiting" (at line 114), "done" or "threw".
Updates == 1..MaxUpdates
NewModuleWorker == [isBusy |-> FALSE, updates |-> [u \in Updates |-> "none"]]

\* ------------------------------------------------------------------- state
VARIABLES
    online_status,                  \* script.js online_status
    is_group_generating,            \* group generation flag
    selected_group,                 \* id of the selected group, NoGroup for null
    menu_type,                      \* script.js menu_type
    is_send_press,                  \* script.js is_send_press
    is_group_automode_enabled,
    groupAutoModeAbortController,   \* signal of the controller, NoSignal for null
    aborted,                        \* the signals whose abort has fired
    chat,                           \* the shared chat log
    this_chid,                      \* active character context (setCharacterId)
    send_active,                    \* send affordances enabled
    textarea_disabled,              \* #send_textarea "disabled" attribute
    send_textarea,                  \* #send_textarea content
    groups,                         \* group id -> group record
    settings,                       \* [streaming, multigen] switches
    streamingProcessor,             \* "null", "running" or "finished"
    calls,                          \* call id -> generateGroupWrapper invocation
    numCalls,                       \* invocations made so far
    numEvents,                      \* user and environment events so far
    moduleWorker                    \* extensions.js ModuleWorkerWrapper instance

groupChatVars == << online_status, is_group_generating, selected_group, menu_type, is_send_press,
           is_group_automode_enabled, groupAutoModeAbortController, aborted, chat, this_chid,
           send_active, textarea_disabled, send_textarea, groups, settings,
           streamingProcessor, calls, numCalls, numEvents >>

vars == << groupChatVars, moduleWorker >>

Cur ==
    [online_status |-> online_status, is_group_generating |-> is_group_generating,
     selected_group |-> selected_group, menu_type |-> menu_type,
     is_send_press |-> is_send_press,
     is_group_automode_enabled |-> is_group_automode_enabled,
     groupAutoModeAbortController |-> groupAutoModeAbortController,
     aborted |-> aborted, chat |-> chat, this_chid |-> this_chid,
     send_active |-> send_active, textarea_disabled |-> textarea_disabled,
     send_textarea |-> send_textarea, groups |-> groups, settings |-> settings,
     streamingProcessor |-> streamingProcessor, calls |-> calls, numCalls |-> numCalls,
     numEvents |-> numEvents]

Becomes(S) ==
    /\ online_status' = S.online_status
    /\ is_group_generating' = S.is_group_generating
    /\ selected_group' = S.selected_group
    /\ menu_type' = S.menu_type
    /\ is_send_press' = S.is_send_press
    /\ is_group_automode_enabled' = S.is_group_automode_enabled
    /\ groupAutoModeAbortController' = S.groupAutoModeAbortController
    /\ aborted' = S.aborted
    /\ chat' = S.chat
    /\ this_chid' = S.this_chid
    /\ send_active' = S.send_active
    /\ textarea_disabled' = S.textarea_disabled
    /\ send_textarea' = S.send_textarea
    /\ groups' = S.groups
    /\ settings' = S.settings
    /\ streamingProcessor' = S.streamingProcessor
    /\ calls' = S.calls
    /\ numCalls' = S.numCalls
    /\ numEvents' = S.numEvents
    /\ moduleWorker' = moduleWorker
    /\ S.numEvents <= MaxEvents
    /\ Len(S.chat) <= MaxChat

Calls == 1..MaxAutoCalls
\* The invocations the sequencer specification goes up to.
SeqCalls == 1..MaxCalls

UserName == <<"U">>
UserMessage(text) ==
    [name |-> UserName, is_user |-> TRUE, is_system |-> FALSE,
     original_avatar |-> NoAvatar, mes |-> text, gen_id |-> 0]
CharMessage(chId, text, genId) ==
    [name |-> characters[chId + 1].name, is_user |-> FALSE, is_system |-> FALSE,
     original_avatar |-> characters[chId + 1].avatar, mes |-> text, gen_id |-> genId]

\* An invocation that has not been made yet.
NoCall ==
    [pc |-> "none", by_auto_mode |-> FALSE, type |-> "normal", force_chid |-> Undefined,
     signal |-> NoSignal, hasCallbacks |-> FALSE,
     userInput |-> <<>>, messagesBefore |-> 0, lastMessageText |-> <<>>,
     isUserInput |-> FALSE, isGenerationDone |-> FALSE, isGenerationAborted |-> FALSE,
     onabort |-> FALSE, activatedMembers |-> <<>>, idx |-> 0, generateType |-> "",
     gen |-> "none", outcome |-> "", toasts |-> {},
     generated |-> <<>>, turnStart |-> 0]

\* The positions of a call between line 436 and the finally block.
InCycle(call) == call.pc \in {"sendUser", "genAwait", "poll"}

LastMessage(chatLog) == IF Len(chatLog) = 0 THEN <<>> ELSE <<chatLog[Len(chatLog)]>>

\* ---------------------------------------------------- generateGroupWrapper
\* The invocation returns: its locals go out of scope; the request, the
\* outcome, the resolved members and the Generate calls made are kept.
Return(S, c, outcome) ==
    LET call == S.calls[c]
    IN [S EXCEPT !.calls[c] =
           [NoCall EXCEPT !.pc = "done", !.outcome = outcome,
                          !.by_auto_mode = call.by_auto_mode, !.type = call.type,
                          !.force_chid = call.force_chid, !.signal = call.signal,
                          !.hasCallbacks = call.hasCallbacks,
                          !.activatedMembers = call.activatedMembers, !.idx = call.idx,
                          !.generateType = call.generateType, !.gen = call.gen,
                          !.generated = call.generated, !.toasts = call.toasts]]

\* finally block, lines 650-662.
FinallyOnlyOnSuccess(S, c, outcome) ==
    IF outcome = "completed"
    THEN Return([S EXCEPT !.is_group_generating = FALSE, !.textarea_disabled = FALSE,
                          !.is_send_press = FALSE, !.this_chid = Undefined,
                          !.send_active = TRUE], c, outcome)
    ELSE Return(S, c, outcome)

Finally(S, c, outcome) ==
    Return([S EXCEPT !.is_group_generating = FALSE, !.textarea_disabled = FALSE,
                     !.is_send_press = FALSE, !.this_chid = Undefined,
                     !.send_active = TRUE], c, outcome)

\* The external Generate call being invoked for the current member: it marks
\* the send as pressed, posts the pending user input on an ordinary turn and
\* starts the member's generation, observed out of band.  turnStart records
\* the message count the member's turn starts with, the user's message counted.
Generate(S, c) ==
    LET call == S.calls[c]
        postsInput == call.generateType = "group_chat" /\ ~call.by_auto_mode
                      /\ Len(S.send_textarea) > 0
    IN [S EXCEPT !.is_send_press = TRUE,
                 !.chat = IF postsInput THEN Append(@, UserMessage(S.send_textarea)) ELSE @,
                 !.send_textarea = IF postsInput THEN <<>> ELSE @,
                 !.streamingProcessor = IF S.settings.streaming THEN "running" ELSE @,
                 !.calls[c].gen = "running",
                 !.calls[c].generated = Append(@, S.this_chid),
                 !.calls[c].turnStart = Len(S.chat) + (IF postsInput THEN 1 ELSE 0),
                 !.calls[c].pc = "genAwait"]

GenerateTypeOf(type) ==
    IF type \in {"swipe", "impersonate", "quiet", "continue"} THEN type ELSE "group_chat"

\* A member loop that leaves the done flag as the last turn set it.
LoopTopNoReset(S, c) ==
    LET call == S.calls[c]
        i == call.idx + 1
    IN IF i > Len(call.activatedMembers) THEN Finally(S, c, "completed")
       ELSE LET chId == call.activatedMembers[i]
                S1 == [S EXCEPT !.send_active = FALSE, !.this_chid = chId,
                                !.calls[c].generateType = GenerateTypeOf(call.type),
                                !.calls[c].idx = i]
            IN IF ~ValidChid(chId) THEN Finally(S1, c, "TypeError_no_character")
               ELSE Generate(S1, c)

\* Top of the member loop, lines 539-546, up to the awaited Generate call.
LoopTop(S, c) ==
    LET call == S.calls[c]
        i == call.idx + 1
    IN IF i > Len(call.activatedMembers) THEN Finally(S, c, "completed")
       ELSE LET chId == call.activatedMembers[i]
                S1 == [S EXCEPT !.send_active = FALSE, !.this_chid = chId,
                                !.calls[c].isGenerationDone = FALSE,
                                !.calls[c].generateType = GenerateTypeOf(call.type),
                                !.calls[c].idx = i]
            IN IF ~ValidChid(chId) THEN Finally(S1, c, "TypeError_no_character")
               ELSE Generate(S1, c)

StreamingBusy(S) == S.streamingProcessor = "running"

\* One evaluation of the completion checks, lines 566-647:
\* "wait", "break", "break++" (messagesBefore++) or "TypeError" (no last message).
PollCheck(S, c) ==
    LET call == S.calls[c]
        multigen == S.settings.multigen
        streaming == S.settings.streaming
        byFlag == IF call.isGenerationDone THEN "break" ELSE "wait"
        byStream == IF StreamingBusy(S) THEN "wait" ELSE "break"
    IN IF call.generateType = "group_chat" /\ ~multigen /\ Len(S.chat) = call.messagesBefore
       THEN "wait"
       ELSE IF call.type = "swipe"
       THEN (IF streaming THEN byStream
             ELSE IF multigen THEN byFlag
             ELSE IF Len(S.chat) = 0 THEN "TypeError"
             ELSE IF call.lastMessageText = S.chat[Len(S.chat)].mes THEN "wait" ELSE "break")
       ELSE IF call.type = "impersonate"
       THEN (IF streaming THEN byStream
             ELSE IF multigen THEN byFlag
             ELSE IF Len(S.send_textarea) = 0 \/ S.send_textarea = call.userInput
                  THEN "wait" ELSE "break")
       ELSE IF call.type = "quiet" THEN byFlag
       ELSE IF multigen THEN (IF call.isGenerationDone THEN "break++" ELSE "wait")
       ELSE IF streaming THEN (IF StreamingBusy(S) THEN "wait" ELSE "break++")
       ELSE "break++"

\* One pass of the while loop, lines 560-648, and on break the next member.
PollNoAbortCheck(S, c) ==
    LET S1 == [S EXCEPT !.send_active = FALSE]
        check == PollCheck(S1, c)
    IN IF check = "TypeError" THEN Finally(S1, c, "TypeError_no_last_message")
       ELSE IF check = "wait" THEN [S1 EXCEPT !.calls[c].pc = "poll"]
       ELSE LoopTop([S1 EXCEPT !.calls[c].messagesBefore =
                                   IF check = "break++" THEN @ + 1 ELSE @], c)

PollNoWait(S, c) ==
    LET S1 == [S EXCEPT !.send_active = FALSE]
    IN IF S.calls[c].isGenerationAborted THEN Finally(S1, c, "aborted")
       ELSE LoopTop(S1, c)

Poll(S, c) ==
    LET S1 == [S EXCEPT !.send_active = FALSE]
        check == PollCheck(S1, c)
    IN IF S.calls[c].isGenerationAborted THEN Finally(S1, c, "aborted")
       ELSE IF check = "TypeError" THEN Finally(S1, c, "TypeError_no_last_message")
       ELSE IF check = "wait" THEN [S1 EXCEPT !.calls[c].pc = "poll"]
       ELSE LoopTop([S1 EXCEPT !.calls[c].messagesBefore =
                                   IF check = "break++" THEN @ + 1 ELSE @], c)

\* Random draws of one resolution: the shuffle permutation, the roll of each
\* shuffled position, the guarantee-pass picks and the impersonate index.
NoDraw(n) ==
    [perm |-> [i \in 1..n |-> i], rolls |-> [i \in 1..n |-> 0],
     picks |-> [i \in 1..n |-> 1], randomIndex |-> 1]

EnabledMembers(group) ==
    SelectSeq(group.members, LAMBDA x : x \notin group.disabled_members)

\* lines 459-467
IsUserInput(userInput, by_auto_mode) == Len(userInput) > 0 /\ ~by_auto_mode

ActivationText(userInput, by_auto_mode, lastMessage) ==
    IF IsUserInput(userInput, by_auto_mode) THEN userInput
    ELSE IF Len(lastMessage) > 0 /\ ~lastMessage[1].is_system THEN lastMessage[1].mes
    ELSE <<>>

\* A forced member that gives way to the request kind.
IsForcedOrdinaryOnly(req) ==
    req.force_chid # Undefined /\ req.type \in {"normal", "auto"}

\* line 500: typeof params.force_chid == 'number'
IsForced(req) == req.force_chid # Undefined

\* Resolution dispatch, lines 496-526: the error thrown, if any, and the
\* activated character ids.
Resolve(group, chatLog, userInput, req, d) ==
    LET enabledMembers == EnabledMembers(group)
        lastMessage == LastMessage(chatLog)
        ok(m) == [error |-> "", members |-> m]
    IN IF IsForced(req) THEN ok(<<req.force_chid>>)
       ELSE IF req.type = "quiet"
       THEN (IF Len(chatLog) = 0 THEN [error |-> "TypeError_no_last_message", members |-> <<>>]
             ELSE LET sw == activateSwipe(group.members, chatLog)
                  IN IF Len(sw) = 0 THEN ok(activateListOrder(SubSeq(group.members, 1, 1)))
                     ELSE ok(sw))
       ELSE IF req.type \in {"swipe", "continue"}
       THEN (IF Len(chatLog) = 0 THEN [error |-> "TypeError_no_last_message", members |-> <<>>]
             ELSE LET sw == activateSwipe(group.members, chatLog)
                  IN IF Len(sw) = 0 THEN [error |-> "NoMemberFound", members |-> <<>>]
                     ELSE ok(sw))
       ELSE IF req.type = "impersonate"
       THEN ok(activateImpersonate(group.members, d.randomIndex))
       ELSE IF group.activation_strategy = NATURAL
       THEN ok(activateNaturalOrder(enabledMembers,
                    ActivationText(userInput, req.by_auto_mode, lastMessage), lastMessage,
                    group.allow_self_responses, IsUserInput(userInput, req.by_auto_mode),
                    d.perm, d.rolls, d.picks))
       ELSE IF group.activation_strategy = LIST
       THEN ok(activateListOrder(enabledMembers))
       ELSE ok(<<>>)

\* The draws that matter to a request: the guarantee picks vary only when
\* the mention and chattiness passes activated nobody.
Draws(group, chatLog, userInput, req) ==
    LET n == Len(EnabledMembers(group))
        m == Len(group.members)
        lastMessage == LastMessage(chatLog)
        isUser == IsUserInput(userInput, req.by_auto_mode)
        banned == BannedUser(lastMessage, group.allow_self_responses, isUser)
        mentioned == MentionPass(extractAllWords(
                         ActivationText(userInput, req.by_auto_mode, lastMessage)),
                         1, EnabledMembers(group), banned)
        nobody(p, r) == Len(mentioned) = 0
                        /\ Len(ChattinessPass(shuffle(EnabledMembers(group), p), r, banned)) = 0
    IN IF req.force_chid # Undefined \/ req.type \in {"quiet", "swipe", "continue"}
       THEN {NoDraw(n)}
       ELSE IF req.type = "impersonate"
       THEN {[NoDraw(n) EXCEPT !.randomIndex = k] : k \in 1..m}
       ELSE IF group.activation_strategy = NATURAL
       THEN UNION {
              {[NoDraw(n) EXCEPT !.perm = p, !.rolls = r, !.picks = k] :
                   k \in IF nobody(p, r) THEN [1..n -> 1..n] ELSE {NoDraw(n).picks}} :
              <<p, r>> \in Perms(n) \X [1..n -> Rolls]}
       ELSE {NoDraw(n)}

HasGroup(S) == S.selected_group \in DOMAIN S.groups

\* line 429: !group || !Array.isArray(group.members) || !group.members.length
NoMembers(S) == ~HasGroup(S) \/ Len(S.groups[S.selected_group].members) = 0

\* A short circuit that, like the all-disabled branch, forwards the textbox.
NoMembersExitForwarding(S, c) ==
    Return([S EXCEPT !.calls[c].toasts = @ \cup {"EMPTY"},
                     !.chat = Append(@, UserMessage(S.send_textarea))], c, "no_members")

\* lines 430-431: the EMPTY system notice, then return before the try block.
NoMembersExit(S, c) ==
    Return([S EXCEPT !.calls[c].toasts = @ \cup {"EMPTY"}], c, "no_members")

\* From the group lookup (line 426) to the first await inside the try block.
Enter(S, c, d) ==
    LET call == S.calls[c]
        group == S.groups[S.selected_group]
        lastMessage == LastMessage(S.chat)
        userInput == S.send_textarea
        isUser == IsUserInput(userInput, call.by_auto_mode)
        S1 == [S EXCEPT !.is_group_generating = TRUE, !.this_chid = Undefined,
                        !.calls[c].userInput = userInput,
                        !.calls[c].isUserInput = isUser,
                        !.calls[c].messagesBefore = Len(S.chat) + (IF isUser THEN 1 ELSE 0),
                        !.calls[c].lastMessageText =
                            IF Len(lastMessage) > 0 THEN lastMessage[1].mes ELSE <<>>]
        S2 == [S1 EXCEPT !.calls[c].onabort = (call.signal # NoSignal)]
        r == Resolve(group, S.chat, userInput, call, d)
        S3 == [S2 EXCEPT !.calls[c].activatedMembers = r.members,
                         !.textarea_disabled =
                             IF call.force_chid = Undefined /\ call.type = "impersonate"
                             THEN TRUE ELSE @]
    IN IF NoMembers(S)
       THEN NoMembersExit(S, c)
       ELSE IF call.signal # NoSignal /\ call.signal \in S.aborted
       THEN Finally(S1, c, "already_aborted")
       ELSE IF r.error = "NoMemberFound"
       THEN Finally([S2 EXCEPT !.calls[c].toasts = @ \cup {"deleted_member_swiped"}],
                    c, "NoMemberFound")
       ELSE IF r.error # "" THEN Finally(S2, c, r.error)
       ELSE IF Len(r.members) = 0
       THEN [S3 EXCEPT !.calls[c].toasts = @ \cup {"all_disabled"},
                       !.calls[c].pc = "sendUser"]
       ELSE LoopTop(S3, c)

\* select_group_chats, lines 1056-1063, as far as the menu type goes.
select_group_chats(S) ==
    [S EXCEPT !.menu_type = IF HasGroup(S) THEN "group_edit" ELSE "group_create"]

\* Entry of generateGroupWrapper, lines 409-424, continuing into Enter when
\* no navigation delay is awaited.
Start(S, c, req, d) ==
    LET S0 == [S EXCEPT !.numCalls = c,
                        !.calls[c] = [NoCall EXCEPT !.pc = "start",
                                          !.by_auto_mode = req.by_auto_mode,
                                          !.type = req.type,
                                          !.force_chid = req.force_chid,
                                          !.signal = req.signal,
                                          !.hasCallbacks = req.hasCallbacks]]
    IN IF S.online_status = "no_connection"
       THEN Return([S0 EXCEPT !.is_group_generating = FALSE, !.is_send_press = FALSE],
                   c, "no_connection")
       ELSE IF S.is_group_generating
       THEN Return(S0, c, "busy")
       ELSE IF S.menu_type # "group_edit"
       THEN [select_group_chats(S0) EXCEPT !.calls[c].pc = "navDelay"]
       ELSE Enter(S0, c, d)

\* ------------------------------------------------------------ input spaces
T1 == <<"ok">>
T2 == <<"B", Punct, "A">>

\* The chat a group has stored: one reply of its first character.
InitChats == { <<CharMessage(0, T1, 0)>> }
\* A reply may repeat the text it replaces (swipe, continue) or differ.
ReplyTexts(generateType) ==
    IF generateType \in {"swipe", "continue"} THEN {T1, T2} ELSE {T2}
UserTexts == {<<"A", Punct, "A">>}

SeqsOver(A, n) == UNION {[1..k -> A] : k \in 0..n}

Request(by_auto_mode, type, force_chid, signal, hasCallbacks) ==
    [by_auto_mode |-> by_auto_mode, type |-> type, force_chid |-> force_chid,
     signal |-> signal, hasCallbacks |-> hasCallbacks]

\* Invocations through Generate (send, swipe, continue, impersonate, quiet
\* and the "speak" action, line 1209) and the bare call of regenerateGroup
\* (line 134).  The signal is the call's own or one that has already fired.
Requests(c) ==
    {Request(FALSE, "normal", Undefined, NoSignal, FALSE)}
    \cup {Request(FALSE, t, Undefined, c, TRUE) :
              t \in {"normal", "swipe", "continue", "impersonate", "quiet"}}
    \cup {Request(FALSE, "normal", Undefined, sg, TRUE) : sg \in aborted}
    \cup {Request(FALSE, "normal", f, NoSignal, TRUE) : f \in {1, 7}}

DrawsNow(S, req) ==
    IF HasGroup(S) THEN Draws(S.groups[S.selected_group], S.chat, S.send_textarea, req)
    ELSE {NoDraw(0)}

\* ----------------------------------------------------------------- actions
generateGroupWrapper(c) ==
    /\ c = numCalls + 1
    /\ \E req \in Requests(c) : \E d \in DrawsNow(Cur, req) :
           Becomes(Start(Cur, c, req, d))

\* The "speak" button of a member, lines 1206-1211: Generate('normal',
\* {force_chid}) reaches generateGroupWrapper with the callbacks of Generate.
speak(c) ==
    /\ c = numCalls + 1
    /\ \E chid \in {0} :
         LET req == Request(FALSE, "normal", chid, NoSignal, TRUE)
         IN \E d \in DrawsNow(Cur, req) : Becomes(Start(Cur, c, req, d))

\* The awaited delay(1) of line 423 elapses.
AfterNavDelay(c) ==
    /\ calls[c].pc = "navDelay"
    /\ \E d \in DrawsNow(Cur, calls[c]) : Becomes(Enter(Cur, c, d))

\* Variant of lines 531-536 in which the input is dropped instead of sent.
AfterSendUserNothingSent(c) ==
    /\ calls[c].pc = "sendUser"
    /\ Becomes(Finally([Cur EXCEPT !.send_textarea = <<>>], c, "empty_resolution"))

\* Lines 531-536 and the empty member loop: the input goes out as a plain
\* user message, the textbox is cleared and the cycle ends.
AfterSendUser(c) ==
    /\ calls[c].pc = "sendUser"
    /\ Becomes(Finally([Cur EXCEPT !.chat = Append(@, UserMessage(calls[c].userInput)),
                                   !.send_textarea = <<>>],
                       c, "empty_resolution"))

\* The awaited Generate call of line 546 returns, and the poll loop starts.
GenerateReturns(c) ==
    /\ calls[c].pc = "genAwait"
    /\ Becomes(Poll(Cur, c))

\* The awaited Generate call rejects.
GenerateThrows(c) ==
    /\ calls[c].pc = "genAwait"
    /\ Becomes(Finally([Cur EXCEPT !.calls[c].gen =
                                     IF @ = "running" THEN "failed" ELSE @],
                       c, "generate_error"))

\* The awaited delay(100) of the poll loop elapses.
PollTick(c) ==
    /\ calls[c].pc = "poll"
    /\ Becomes(Poll(Cur, c))

\* The generation started for the current member of call c finishes: the
\* reply lands where the request kind puts it and the completion callback
\* wrapper of lines 482-487 runs.
GenerationCompletes(c) ==
    /\ calls[c].gen = "running"
    /\ \E text \in ReplyTexts(calls[c].generateType) :
        LET call == calls[c]
            member == call.generated[Len(call.generated)]
            gt == call.generateType
        IN Becomes([Cur EXCEPT
              !.chat = IF gt = "group_chat" THEN Append(@, CharMessage(member, text, c))
                       ELSE IF gt \in {"swipe", "continue"} /\ Len(@) > 0
                       THEN [@ EXCEPT ![Len(@)].mes = text]
                       ELSE @,
              !.send_textarea = IF gt = "impersonate" THEN text ELSE @,
              !.streamingProcessor = IF settings.streaming THEN "finished" ELSE @,
              !.calls[c].isGenerationDone = IF call.hasCallbacks THEN TRUE ELSE @,
              !.calls[c].gen = "finished"])

\* The generation fails without a reply: only the failure callback wrapper
\* of lines 489-494 runs.
GenerationFails(c) ==
    /\ calls[c].gen = "running"
    /\ Becomes([Cur EXCEPT
              !.calls[c].isGenerationDone = IF calls[c].hasCallbacks THEN TRUE ELSE @,
              !.calls[c].gen = "failed"])

\* A user or environment event, counted against MaxEvents.
Event(S) == Becomes([S EXCEPT !.numEvents = @ + 1])

\* AbortSignal.abort(): the onabort handler of lines 477-479 runs for the
\* cycle that registered it.
Fire(S, sg) ==
    IF sg = NoSignal \/ sg \in S.aborted THEN S
    ELSE [S EXCEPT !.aborted = @ \cup {sg},
                   !.calls = [k \in Calls |->
                                 IF S.calls[k].signal = sg /\ S.calls[k].onabort
                                 THEN [S.calls[k] EXCEPT !.isGenerationAborted = TRUE]
                                 ELSE S.calls[k]]]

\* The stop button aborts the signal handed to a manual request.
AbortSignal(c) ==
    /\ calls[c].pc # "none"
    /\ calls[c].signal # NoSignal
    /\ calls[c].signal \notin aborted
    /\ Event(Fire(Cur, calls[c].signal))

\* lines 1505-1512
stopAutoModeGeneration ==
    /\ groupAutoModeAbortController # NoSignal \/ is_group_automode_enabled
    /\ Event([Fire(Cur, groupAutoModeAbortController)
                   EXCEPT !.is_group_automode_enabled = FALSE])

\* #rm_group_automode input handler, lines 1549-1553
AutoModeInput ==
    /\ \E value \in BOOLEAN :
         /\ value # is_group_automode_enabled
         /\ Becomes([Cur EXCEPT !.is_group_automode_enabled = value])

\* Typing that also stops the generation in flight.
onSendTextareaInputStopping ==
    /\ ~textarea_disabled
    /\ \E text \in UserTexts \cup {<<>>} :
         /\ text # send_textarea \/ is_group_automode_enabled
         /\ Event([Fire(Cur, groupAutoModeAbortController)
                        EXCEPT !.send_textarea = text,
                               !.is_group_automode_enabled = FALSE])

\* The user types into the textbox; the keyup handler is
\* onSendTextareaInput, lines 1497-1503.
onSendTextareaInput ==
    /\ ~textarea_disabled
    /\ \E text \in UserTexts \cup {<<>>} :
         /\ text # send_textarea \/ is_group_automode_enabled
         /\ Event([Cur EXCEPT !.send_textarea = text,
                                !.is_group_automode_enabled = FALSE])

\* The timer period of line 100 is 5 s and the navigation delay of line 423
\* is 1 ms: no tick fires while the invocation of an earlier tick is still
\* in that delay.
TimerDue == \A k \in Calls : calls[k].pc = "navDelay" => ~calls[k].by_auto_mode

\* A tick that does not look at the sequencer state.
groupChatAutoModeWorkerNoBusyCheck(c) ==
    /\ c = numCalls + 1
    /\ TimerDue
    /\ IF \/ ~is_group_automode_enabled \/ online_status = "no_connection"
          \/ selected_group = NoGroup \/ is_send_press
          \/ ~HasGroup(Cur) \/ Len(groups[selected_group].members) = 0
       THEN UNCHANGED vars
       ELSE LET S == [Cur EXCEPT !.groupAutoModeAbortController = c]
                req == Request(TRUE, "auto", Undefined, c, FALSE)
            IN \E d \in DrawsNow(S, req) : Becomes(Start(S, c, req, d))

\* A tick that goes on without a connection.
WorkerReturnsEarlyConnectionIgnored(S) ==
    \/ ~S.is_group_automode_enabled
    \/ S.selected_group = NoGroup \/ S.is_send_press \/ S.is_group_generating
    \/ ~HasGroup(S) \/ Len(S.groups[S.selected_group].members) = 0

\* The early returns of groupChatAutoModeWorker, lines 831-843.
WorkerReturnsEarly(S) ==
    \/ ~S.is_group_automode_enabled \/ S.online_status = "no_connection"
    \/ S.selected_group = NoGroup \/ S.is_send_press \/ S.is_group_generating
    \/ ~HasGroup(S) \/ Len(S.groups[S.selected_group].members) = 0

\* groupChatAutoModeWorker, lines 830-847: a timer tick.
groupChatAutoModeWorker(c) ==
    /\ c = numCalls + 1
    /\ TimerDue
    /\ IF WorkerReturnsEarly(Cur)
       THEN UNCHANGED vars
       ELSE LET S == [Cur EXCEPT !.groupAutoModeAbortController = c]
                req == Request(TRUE, "auto", Undefined, c, FALSE)
            IN \E d \in DrawsNow(S, req) : Becomes(Start(S, c, req, d))

SetOnlineStatus ==
    /\ Event([Cur EXCEPT !.online_status =
                   IF @ = "connected" THEN "no_connection" ELSE "connected"])

\* lines 216-219
resetSelectedGroup ==
    /\ selected_group # NoGroup \/ is_group_generating
    /\ Event([Cur EXCEPT !.selected_group = NoGroup, !.is_group_generating = FALSE])

\* lines 1223-1241; getGroupChat (152-187) reloads the stored chat of the
\* newly selected group.
selectGroup(groupId) ==
    /\ groupId \in DOMAIN groups
    /\ IF ~is_send_press /\ ~is_group_generating
       THEN \E stored \in InitChats :
            LET S == IF selected_group # groupId
                     THEN [Cur EXCEPT !.selected_group = groupId,
                                      !.this_chid = Undefined, !.chat = stored]
                     ELSE Cur
            IN /\ (selected_group # groupId \/ menu_type # "group_edit")
               /\ Event(select_group_chats(S))
       ELSE UNCHANGED vars

\* lines 1243-1262: refused while the group is generating, else the
\* character becomes the active one and its definition panel opens.
openCharacterDefinition(chid) ==
    IF is_group_generating THEN UNCHANGED vars
    ELSE Event([Cur EXCEPT !.this_chid = chid, !.menu_type = "character_edit"])

\* lines 1027-1035, the popup confirmed and deleteGroup (790-800) done:
\* refused while the group is generating, else the group is deselected and
\* the chat state reset.
onDeleteGroupClick ==
    IF is_group_generating THEN UNCHANGED vars
    ELSE /\ selected_group # NoGroup
         /\ Event([Cur EXCEPT !.selected_group = NoGroup, !.this_chid = Undefined,
                                !.chat = <<>>])

\* The user leaves the group panel for the character list.
NavigateAway ==
    /\ menu_type = "group_edit"
    /\ Event([Cur EXCEPT !.menu_type = "characters"])

\* ----------------------------------------------------------- specification
Group(members, disabled, strategy, allow) ==
    [members |-> members, disabled_members |-> disabled,
     activation_strategy |-> strategy, allow_self_responses |-> allow]

SeqGroups ==
    { Group(<<"a", "b">>, {}, NATURAL, FALSE),
      Group(<<"b", "a">>, {}, LIST, FALSE),
      Group(<<"a", "x">>, {"a"}, LIST, FALSE),
      Group(<<>>, {}, NATURAL, FALSE) }

TypeOK ==
    /\ online_status \in {"connected", "no_connection"}
    /\ is_group_generating \in BOOLEAN
    /\ numCalls \in 0..MaxAutoCalls
    /\ Len(chat) <= MaxChat

Init ==
    /\ online_status = "connected"
    /\ is_group_generating = FALSE
    /\ selected_group = 1
    /\ menu_type = "group_edit"
    /\ is_send_press = FALSE
    /\ is_group_automode_enabled = FALSE
    /\ groupAutoModeAbortController = NoSignal
    /\ aborted = {}
    /\ chat \in InitChats
    /\ this_chid = Undefined
    /\ send_active = TRUE
    /\ textarea_disabled = FALSE
    /\ send_textarea = <<>>
    /\ \E g \in SeqGroups : groups = <<g>>
    /\ settings \in {[streaming |-> FALSE, multigen |-> FALSE]}
    /\ streamingProcessor = "null"
    /\ calls = [c \in Calls |-> NoCall]
    /\ numCalls = 0
    /\ numEvents = 0
    /\ moduleWorker = NewModuleWorker

Next ==
    \/ \E c \in SeqCalls : generateGroupWrapper(c)
    \/ \E c \in SeqCalls : AfterNavDelay(c)
    \/ \E c \in SeqCalls : AfterSendUser(c)
    \/ \E c \in SeqCalls : GenerateReturns(c)
    \/ \E c \in SeqCalls : GenerateThrows(c)
    \/ \E c \in SeqCalls : PollTick(c)
    \/ \E c \in SeqCalls : GenerationCompletes(c)
    \/ \E c \in SeqCalls : GenerationFails(c)
    \/ \E c \in SeqCalls : AbortSignal(c)
    \/ \E c \in SeqCalls : groupChatAutoModeWorker(c)
    \/ stopAutoModeGeneration
    \/ AutoModeInput
    \/ onSendTextareaInput
    \/ SetOnlineStatus
    \/ resetSelectedGroup
    \/ \E g \in {1} : selectGroup(g)
    \/ NavigateAway

Spec == Init /\ [][Next]_vars

\* --------------------------------------- resolution over a wide input space
\* One invocation on an idle, connected session, for every group, last
\* message, textbox content and request of the bounded input space.
RGroups ==
    {Group(m, d, st, al) :
        m \in SeqsOver(Avatars, MaxMembers), d \in SUBSET Avatars,
        st \in {NATURAL, LIST}, al \in BOOLEAN}

Message(name, is_user, is_system, original_avatar, mes) ==
    [name |-> name, is_user |-> is_user, is_system |-> is_system,
     original_avatar |-> original_avatar, mes |-> mes, gen_id |-> 0]

RChats ==
    { <<>>,
      <<UserMessage(T1)>>,
      <<CharMessage(0, T2, 0)>>,
      <<CharMessage(1, T1, 0)>>,
      <<CharMessage(2, T1, 0)>>,
      <<Message(<<"A">>, FALSE, FALSE, NoAvatar, T1)>>,
      <<Message(<<"X">>, FALSE, FALSE, NoAvatar, T1)>>,
      <<Message(<<"X">>, FALSE, FALSE, "x", T2)>> }

RRequests ==
    {Request(t = "auto", t, f, NoSignal, t # "auto") :
        t \in {"normal", "auto", "swipe", "continue", "impersonate", "quiet"},
        f \in {Undefined, 1, 7}}

InitR ==
    /\ online_status = "connected"
    /\ is_group_generating = FALSE
    /\ selected_group = 1
    /\ menu_type = "group_edit"
    /\ is_send_press = FALSE
    /\ is_group_automode_enabled = FALSE
    /\ groupAutoModeAbortController = NoSignal
    /\ aborted = {}
    /\ chat \in RChats
    /\ this_chid = Undefined
    /\ send_active = TRUE
    /\ textarea_disabled = FALSE
    /\ send_textarea \in UserTexts \cup {<<>>}
    /\ \E g \in RGroups :
         /\ g.disabled_members \subseteq {g.members[i] : i \in 1..Len(g.members)}
         /\ groups = <<g>>
    /\ settings = [streaming |-> FALSE, multigen |-> FALSE]
    /\ streamingProcessor = "null"
    /\ calls = [c \in Calls |-> NoCall]
    /\ numCalls = 0
    /\ numEvents = 0
    /\ moduleWorker = NewModuleWorker

ResolveRequest ==
    /\ numCalls = 0
    /\ \E req \in RRequests : \E d \in DrawsNow(Cur, req) :
           Becomes(Start(Cur, 1, req, d))

NextR ==
    \/ ResolveRequest
    \/ \E c \in Calls : AfterSendUser(c)

SpecR == InitR /\ [][NextR]_vars

\* ------------------------------------------------- auto-mode over three calls
\* A two-member LIST group with the timer ticking, the "speak" button, the
\* stop action and typing, over up to MaxAutoCalls invocations.
InitA ==
    /\ online_status = "connected"
    /\ is_group_generating = FALSE
    /\ selected_group = 1
    /\ menu_type \in {"group_edit", "characters"}
    /\ is_send_press = FALSE
    /\ is_group_automode_enabled = FALSE
    /\ groupAutoModeAbortController = NoSignal
    /\ aborted = {}
    /\ chat \in InitChats
    /\ this_chid = Undefined
    /\ send_active = TRUE
    /\ textarea_disabled = FALSE
    /\ send_textarea = <<>>
    /\ groups = <<Group(<<"b", "a">>, {}, LIST, FALSE)>>
    /\ settings = [streaming |-> FALSE, multigen |-> FALSE]
    /\ streamingProcessor = "null"
    /\ calls = [c \in Calls |-> NoCall]
    /\ numCalls = 0
    /\ numEvents = 0
    /\ moduleWorker = NewModuleWorker

NextA ==
    \/ \E c \in Calls : groupChatAutoModeWorker(c)
    \/ \E c \in Calls : speak(c)
    \/ \E c \in Calls : AfterNavDelay(c)
    \/ \E c \in Calls : GenerateReturns(c)
    \/ \E c \in Calls : GenerateThrows(c)
    \/ \E c \in Calls : PollTick(c)
    \/ \E c \in Calls : GenerationCompletes(c)
    \/ stopAutoModeGeneration
    \/ AutoModeInput
    \/ onSendTextareaInput

SpecA == InitA /\ [][NextA]_vars

\* ------------------------------------------------------------------ claims
Generating == {c \in Calls : InCycle(calls[c])}

\* C1: at most one sequencer cycle is between its entry into Generating
\* (line 436) and its cleanup (the finally block) at any time.
C1_AtMostOneGenerating == Cardinality(Generating) <= 1

\* The cleanup outcomes: every exit that passes through the try block.
ThroughTry(outcome) == outcome \notin {"", "busy", "no_connection", "no_members"}

\* C2: whenever a call leaves through the try block (normal completion,
\* empty resolution, resolver error, abort or an exception while generating)
\* the state right after it is Idle, with the send affordances and the textbox
\* re-enabled and the active character context cleared.
C2_CleanupOnEveryExit ==
    [][\A c \in Calls :
          (calls[c].pc # "done" /\ calls'[c].pc = "done" /\ ThroughTry(calls'[c].outcome))
          => /\ ~is_group_generating'
             /\ send_active'
             /\ ~is_send_press'
             /\ ~textarea_disabled'
             /\ this_chid' = Undefined]_vars

C2_Witness ==
    \E c \in Calls :
        /\ calls[c].pc = "done" /\ calls[c].outcome = "generate_error"
        /\ Len(calls[c].generated) > 0
        /\ ~is_group_generating /\ send_active /\ ~textarea_disabled
        /\ this_chid = Undefined

\* C3: a call made while a cycle is Generating is a no-op: it invokes no
\* generation and leaves the flag (still set), the chat log, the active
\* character context and the send-button state as they were.
C3_BusyCallIsNoOp ==
    [][\A c \in Calls :
          (calls[c].pc = "none" /\ calls'[c].pc # "none" /\ Generating # {})
          => /\ is_group_generating' /\ is_group_generating
             /\ chat' = chat
             /\ this_chid' = this_chid
             /\ is_send_press' = is_send_press
             /\ send_active' = send_active
             /\ calls'[c].generated = <<>>]_vars

\* C4: within one cycle Generate is invoked for one member at a time, in the
\* resolver's order, and for a later member only in a step in which the
\* completion checks report the current member complete.
C4_SequentialInOrder ==
    [][\A c \in Calls :
          Len(calls'[c].generated) > Len(calls[c].generated)
          => LET n == Len(calls[c].generated)
             IN /\ calls'[c].generated =
                       SubSeq(calls'[c].activatedMembers, 1, n + 1)
                /\ n > 0 => /\ calls[c].pc \in {"genAwait", "poll"}
                            /\ calls[c].activatedMembers = calls'[c].activatedMembers
                            /\ PollCheck(Cur, c) \in {"break", "break++"}]_vars

C4_Witness ==
    \E c \in Calls :
        /\ calls[c].pc = "genAwait"
        /\ Len(calls[c].generated) = 2
        /\ calls[c].generated = calls[c].activatedMembers

\* C5: once the signal passed to a cycle has fired, the cycle invokes
\* Generate for no further member, and its next step out of an await ends it
\* with the cleanup done.
C5_NoGenerateAfterAbort ==
    [][\A c \in Calls :
          (calls'[c].signal # NoSignal /\ calls'[c].signal \in aborted)
          => /\ calls'[c].generated = calls[c].generated
             /\ (InCycle(calls[c]) /\ calls'[c].pc # calls[c].pc)
                => (calls'[c].pc = "done" /\ ~is_group_generating')]_vars

C5_Witness ==
    \E c \in Calls :
        /\ calls[c].pc = "done" /\ calls[c].outcome = "aborted"
        /\ calls[c].signal \in aborted
        /\ calls[c].idx = 1 /\ Len(calls[c].activatedMembers) = 2
        /\ Len(calls[c].generated) = 1
        /\ ~is_group_generating

\* The author of a message cannot be resolved: no tag and no current member
\* of that name, or a tagged author that is absent from the registry.
Unresolvable(last, members) ==
    IF last.original_avatar = NoAvatar
    THEN ~\E i \in 1..Len(characters) :
            characters[i].name = last.name /\ Includes(members, characters[i].avatar)
    ELSE ~HasCharacter(last.original_avatar)

\* C6: a swipe or continue request (no forced member) that enters the try
\* block on a last message with no resolvable author ends with the
\* NoMemberFound error and its warning, no Generate call, and the state Idle.
C6_SwipeNoMemberFound ==
    [][\A c \in Calls :
          (/\ calls[c].pc \in {"none", "navDelay"}
           /\ calls'[c].pc \notin {"none", "navDelay"}
           /\ calls'[c].outcome \notin {"busy", "no_connection", "already_aborted"}
           /\ calls'[c].type \in {"swipe", "continue"}
           /\ calls'[c].force_chid = Undefined
           /\ HasGroup(Cur) /\ Len(chat) > 0
           /\ Len(groups[selected_group].members) > 0
           /\ Unresolvable(chat[Len(chat)], groups[selected_group].members))
          => /\ calls'[c].pc = "done"
             /\ calls'[c].outcome = "NoMemberFound"
             /\ "deleted_member_swiped" \in calls'[c].toasts
             /\ calls'[c].generated = <<>>
             /\ ~is_group_generating']_vars

C6_Witness ==
    \E c \in Calls :
        /\ calls[c].type = "continue" /\ calls[c].outcome = "NoMemberFound"
        /\ "deleted_member_swiped" \in calls[c].toasts
        /\ calls[c].generated = <<>>
        /\ ~is_group_generating
        /\ Len(chat) > 0 /\ chat[Len(chat)].original_avatar = "x"

NoDuplicates(s) == \A i, j \in 1..Len(s) : s[i] = s[j] => i = j

\* C7: the resolved member list handed to the generation loop contains no
\* identifier twice.
C7_NoDuplicateMembers ==
    \A c \in Calls : NoDuplicates(calls[c].activatedMembers)

C7_Witness ==
    \E c \in Calls :
        /\ groups[1].members = <<"a", "a">> /\ groups[1].disabled_members = {}
        /\ groups[1].activation_strategy = LIST
        /\ calls[c].type = "normal" /\ calls[c].force_chid = Undefined
        /\ calls[c].activatedMembers = <<0>>
        /\ calls[c].generated = <<0>>

\* C8: every identifier of a resolved member list, a forced member included,
\* is an entry of the character registry.
C8_ResolvedMembersExist ==
    \A c \in Calls :
        \A i \in 1..Len(calls[c].activatedMembers) : ValidChid(calls[c].activatedMembers[i])

\* C9: under the NATURAL policy a group with at least one enabled member
\* always gets a non-empty resolved member list (stated for the groups in
\* which an enabled member is in the registry, so that a speaker exists).
C9_NaturalNonEmpty ==
    \A c \in Calls :
        (/\ InCycle(calls[c])
         /\ calls[c].type \in {"normal", "auto"} /\ calls[c].force_chid = Undefined
         /\ HasGroup(Cur)
         /\ groups[selected_group].activation_strategy = NATURAL
         /\ \E i \in 1..Len(EnabledMembers(groups[selected_group])) :
                HasCharacter(EnabledMembers(groups[selected_group])[i]))
        => Len(calls[c].activatedMembers) > 0

\* The registry ids of the author of a message: by tag, else by name.
AuthorIds(last) ==
    {i \in 0..(Len(characters) - 1) :
        IF last.original_avatar # NoAvatar
        THEN characters[i + 1].avatar = last.original_avatar
        ELSE characters[i + 1].name = last.name}

\* C10: under the NATURAL policy, on a turn that is not user-triggered, with
\* self-responses disallowed, the author of the previous (non-user) message
\* is not in the resolved member list (stated for the groups in which another
\* enabled, registered member can speak instead).
C10_AuthorNeverActivated ==
    \A c \in Calls :
        (/\ InCycle(calls[c])
         /\ calls[c].type \in {"normal", "auto"} /\ calls[c].force_chid = Undefined
         /\ ~calls[c].isUserInput
         /\ HasGroup(Cur)
         /\ groups[selected_group].activation_strategy = NATURAL
         /\ ~groups[selected_group].allow_self_responses
         /\ Len(chat) > 0 /\ ~chat[Len(chat)].is_user /\ ~chat[Len(chat)].is_system
         /\ \E i \in 1..Len(EnabledMembers(groups[selected_group])) :
                /\ HasCharacter(EnabledMembers(groups[selected_group])[i])
                /\ findIndex(EnabledMembers(groups[selected_group])[i])
                       \notin AuthorIds(chat[Len(chat)])
                /\ CharOf(EnabledMembers(groups[selected_group])[i]).name
                       # chat[Len(chat)].name)
        => \A i \in 1..Len(calls[c].activatedMembers) :
               calls[c].activatedMembers[i] \notin AuthorIds(chat[Len(chat)])

\* The first position of an avatar in a member list.
FirstPos(members, avatar) ==
    CHOOSE i \in 1..Len(members) :
        members[i] = avatar /\ \A j \in 1..(i - 1) : members[j] # avatar

\* r lists, once each and in stored order, the registry ids of the enabled
\* members of the group that are in the registry.
IsStoredOrder(r, group) ==
    LET resolvable == {m \in Avatars : /\ Includes(group.members, m)
                                       /\ m \notin group.disabled_members
                                       /\ HasCharacter(m)}
        avatarOf(id) == characters[id + 1].avatar
    IN /\ NoDuplicates(r)
       /\ {r[i] : i \in 1..Len(r)} = {findIndex(m) : m \in resolvable}
       /\ \A i, j \in 1..Len(r) :
              i < j => FirstPos(group.members, avatarOf(r[i]))
                           < FirstPos(group.members, avatarOf(r[j]))

\* An ordinary turn: a send or an auto-mode tick without a forced member.
OrdinaryTurn(call) ==
    /\ call.pc # "none"
    /\ call.type \in {"normal", "auto"} /\ call.force_chid = Undefined
    /\ call.outcome \notin {"busy", "no_connection", "no_members", "already_aborted"}

\* C11: under the LIST policy an ordinary turn resolves to exactly the
\* enabled, registry-resolvable members in their stored order, whatever the
\* chat, the input text and the random draws are.
C11_ListStoredOrder ==
    \A c \in Calls :
        (OrdinaryTurn(calls[c]) /\ HasGroup(Cur)
         /\ groups[selected_group].activation_strategy = LIST)
        => IsStoredOrder(calls[c].activatedMembers, groups[selected_group])

C11_Witness ==
    \E c \in Calls :
        /\ OrdinaryTurn(calls[c])
        /\ groups[1].activation_strategy = LIST
        /\ groups[1].members = <<"b", "a">> /\ groups[1].disabled_members = {}
        /\ Len(chat) > 0 /\ chat[Len(chat)].mes = T2
        /\ calls[c].activatedMembers = <<1, 0>>

\* The call went past the entry checks and the abort check into resolution.
Resolved(call) ==
    /\ call.pc # "none"
    /\ call.outcome \notin {"busy", "no_connection", "no_members", "already_aborted"}

\* C12: a request that carries a forced member C resolves to exactly [C],
\* whatever the request kind, the group's activation policy and C's
\* disabled status are.
C12_ForcedMemberOnly ==
    \A c \in Calls :
        (Resolved(calls[c]) /\ calls[c].force_chid # Undefined)
        => /\ calls[c].activatedMembers = <<calls[c].force_chid>>
           /\ calls[c].outcome \notin {"NoMemberFound", "TypeError_no_last_message"}

C12_Witness ==
    \E c \in Calls :
        /\ Resolved(calls[c])
        /\ calls[c].type = "swipe" /\ calls[c].force_chid = 1
        /\ groups[1].members = <<"a", "b">> /\ groups[1].disabled_members = {"b"}
        /\ groups[1].activation_strategy = LIST
        /\ Len(chat) > 0 /\ chat[Len(chat)].original_avatar = "a"
        /\ calls[c].activatedMembers = <<1>> /\ calls[c].generated = <<1>>

\* C13: swipe-style resolution (swipe, continue, quiet) of a last message
\* that carries an original-author tag of an enabled, registered member
\* returns exactly that author, also when another member has the same name.
C13_SwipeTaggedAuthor ==
    [][\A c \in Calls :
          (/\ calls[c].pc \in {"none", "navDelay"}
           /\ calls'[c].pc \notin {"none", "navDelay"}
           /\ Resolved(calls'[c])
           /\ calls'[c].type \in {"swipe", "continue", "quiet"}
           /\ calls'[c].force_chid = Undefined
           /\ HasGroup(Cur) /\ Len(chat) > 0
           /\ chat[Len(chat)].original_avatar # NoAvatar
           /\ Includes(EnabledMembers(groups[selected_group]),
                       chat[Len(chat)].original_avatar)
           /\ HasCharacter(chat[Len(chat)].original_avatar))
          => calls'[c].activatedMembers =
                 <<findIndex(chat[Len(chat)].original_avatar)>>]_vars

C13_Witness ==
    \E c \in Calls :
        /\ Resolved(calls[c]) /\ calls[c].type = "swipe"
        /\ calls[c].force_chid = Undefined
        /\ groups[1].members = <<"a", "c">> /\ groups[1].disabled_members = {}
        /\ Len(chat) > 0 /\ chat[Len(chat)].original_avatar = "c"
        /\ chat[Len(chat)].name = characters[1].name
        /\ calls[c].activatedMembers = <<2>> /\ calls[c].generated = <<2>>

\* The single first enabled member of a group, as a resolved list.
FirstEnabled(group) ==
    IF Len(EnabledMembers(group)) = 0 THEN <<>>
    ELSE MapToIds(<<EnabledMembers(group)[1]>>)

\* C14: a quiet request without a forced member resolves to the swipe-style
\* resolution of the last message when that is non-empty, and otherwise to
\* the single first enabled member of the group.
C14_QuietFallbackFirstEnabled ==
    [][\A c \in Calls :
          (/\ calls[c].pc \in {"none", "navDelay"}
           /\ calls'[c].pc \notin {"none", "navDelay"}
           /\ Resolved(calls'[c])
           /\ calls'[c].type = "quiet" /\ calls'[c].force_chid = Undefined
           /\ HasGroup(Cur) /\ Len(chat) > 0)
          => LET group == groups[selected_group]
                 sw == activateSwipe(group.members, chat)
             IN calls'[c].activatedMembers =
                    IF Len(sw) > 0 THEN sw ELSE FirstEnabled(group)]_vars

\* C15: an auto-mode tick that fires while the sequencer state is
\* Generating changes nothing: no cycle starts, the auto-mode flag stays as
\* it is and the cancellation handle is neither replaced nor fired.
C15_TickWhileGeneratingIsNoOp ==
    [][\A c \in Calls :
          (is_group_generating /\ groupChatAutoModeWorker(c)) => UNCHANGED vars]_vars

C15_Witness ==
    /\ is_group_automode_enabled /\ online_status = "connected"
    /\ HasGroup(Cur) /\ Len(groups[selected_group].members) > 0
    /\ ~is_send_press /\ is_group_generating
    /\ numCalls < MaxCalls
    /\ \E c \in Calls : InCycle(calls[c]) /\ calls[c].by_auto_mode
                        /\ groupAutoModeAbortController = calls[c].signal
                        /\ calls[c].signal \notin aborted

\* The conditions of a tick as the specification lists them.
TickConditionsListed ==
    /\ is_group_automode_enabled /\ selected_group # NoGroup
    /\ online_status = "connected" /\ ~is_group_generating

\* The same with the two further conditions of lines 834 and 840: nothing
\* is being sent and the selected group exists and has a member.
TickConditionsAll ==
    /\ TickConditionsListed
    /\ ~is_send_press
    /\ HasGroup(Cur) /\ Len(groups[selected_group].members) > 0

\* A tick step of call slot c that created the handle c and started a cycle.
TickStarted(c) ==
    /\ groupAutoModeAbortController' = c /\ c \notin aborted'
    /\ \A k \in Calls : calls[k].pc # "none" => calls[k].signal # c
    /\ calls[c].pc = "none" /\ calls'[c].pc # "none"
    /\ calls'[c].by_auto_mode /\ calls'[c].type = "auto" /\ calls'[c].signal = c
    /\ calls'[c].outcome \notin {"busy", "no_connection", "no_members"}

\* C16 as stated: a tick creates a fresh handle and starts a cycle exactly
\* when auto-mode is enabled, a group is selected, the backend is connected
\* and the sequencer is Idle; otherwise it changes nothing.
C16_TickExactlyWhenListed ==
    [][/\ TickConditionsListed <=> ~WorkerReturnsEarly(Cur)
       /\ \A c \in Calls :
            /\ (calls[c].pc = "none" /\ calls'[c].pc # "none" /\ calls'[c].by_auto_mode)
                   => TickConditionsListed /\ TickStarted(c)
            /\ (~TickConditionsListed /\ groupChatAutoModeWorker(c)) => UNCHANGED vars]_vars

\* C16 amended: the same, exactly when moreover nothing is being sent and
\* the selected group has at least one member.
C16_TickExactlyWhenAll ==
    [][/\ TickConditionsAll <=> ~WorkerReturnsEarly(Cur)
       /\ \A c \in Calls :
            /\ (calls[c].pc = "none" /\ calls'[c].pc # "none" /\ calls'[c].by_auto_mode)
                   => TickConditionsAll /\ TickStarted(c)
            /\ (~TickConditionsAll /\ groupChatAutoModeWorker(c)) => UNCHANGED vars]_vars

C16_Witness ==
    \E c \in Calls :
        /\ groupAutoModeAbortController = c /\ c \notin aborted
        /\ calls[c].by_auto_mode /\ calls[c].signal = c
        /\ calls[c].pc = "genAwait" /\ Len(calls[c].generated) = 1
        /\ is_group_automode_enabled /\ is_group_generating

\* The auto-mode cycles in flight: started by a tick and inside the try block.
AutoCyclesInFlight == {c \in Calls : calls[c].by_auto_mode /\ InCycle(calls[c])}

\* C17: a stop action taken while an auto-mode cycle is in flight sets the
\* auto-mode flag false and fires the cancellation handle of every such
\* cycle, so that the cycle sees the abort; from then on an aborted
\* auto-mode cycle invokes Generate for no further member, and a tick
\* starts a cycle only while the flag is enabled.
C17_StopCancelsInFlightCycle ==
    [][/\ stopAutoModeGeneration
          => /\ ~is_group_automode_enabled'
             /\ \A c \in AutoCyclesInFlight :
                    calls[c].signal \in aborted' /\ calls'[c].isGenerationAborted
       /\ \A c \in Calls :
            /\ (calls'[c].by_auto_mode /\ calls'[c].signal \in aborted)
                   => calls'[c].generated = calls[c].generated
            /\ (calls[c].pc = "none" /\ calls'[c].pc # "none" /\ calls'[c].by_auto_mode)
                   => is_group_automode_enabled]_vars

\* C18: typing while auto-mode is enabled turns the flag off at once and
\* leaves every cycle as it is: no handle is fired or replaced and no call's
\* state (its abort flag, its members, its position) changes, so the cycle
\* in flight goes on; a later tick starts nothing while the flag is off.
C18_TypingDoesNotCancel ==
    [][/\ onSendTextareaInput
          => /\ ~is_group_automode_enabled'
             /\ aborted' = aborted
             /\ groupAutoModeAbortController' = groupAutoModeAbortController
             /\ calls' = calls
             /\ is_group_generating' = is_group_generating
             /\ chat' = chat
       /\ \A c \in Calls :
            (~is_group_automode_enabled /\ calls[c].pc = "none")
                => (calls'[c].pc = "none" \/ ~calls'[c].by_auto_mode)]_vars

C18_Witness ==
    \E c \in Calls :
        /\ calls[c].by_auto_mode /\ calls[c].pc = "genAwait"
        /\ calls[c].activatedMembers = <<1, 0>> /\ calls[c].generated = <<1, 0>>
        /\ groupAutoModeAbortController = calls[c].signal
        /\ calls[c].signal \notin aborted /\ ~calls[c].isGenerationAborted
        /\ ~is_group_automode_enabled
        /\ send_textarea # <<>> /\ numEvents = 1
        /\ Len(chat) = 2

AllMembersDisabled(group) ==
    Len(group.members) > 0 /\ Len(EnabledMembers(group)) = 0

PlainUserInput(call) ==
    call.type = "normal" /\ ~call.by_auto_mode /\ call.force_chid = Undefined

\* C19: when every member of a non-empty group is disabled and the trigger
\* is plain user input, the cycle raises the "all disabled" warning and
\* calls Generate for nobody; its next step appends the original input to
\* the chat as one plain user message, still without a Generate call, and
\* leaves the session idle with the send button active.
C19_AllDisabledForwardsInput ==
    [][\A c \in Calls :
         /\ (/\ calls[c].pc = "none" /\ calls'[c].pc # "none"
             /\ PlainUserInput(calls'[c])
             /\ send_textarea # <<>>
             /\ HasGroup(Cur) /\ AllMembersDisabled(groups[selected_group]))
                => /\ calls'[c].pc = "sendUser"
                   /\ "all_disabled" \in calls'[c].toasts
                   /\ calls'[c].userInput = send_textarea
                   /\ calls'[c].generated = <<>>
                   /\ chat' = chat
         /\ (calls[c].pc = "sendUser" /\ calls'[c].pc # "sendUser")
                => /\ chat' = Append(chat, UserMessage(calls[c].userInput))
                   /\ calls'[c].pc = "done"
                   /\ calls'[c].outcome = "empty_resolution"
                   /\ calls'[c].generated = <<>>
                   /\ ~is_group_generating' /\ send_active' /\ ~textarea_disabled'
                   /\ send_textarea' = <<>>]_vars

C19_Witness ==
    \E c \in Calls :
        /\ calls[c].pc = "done" /\ calls[c].outcome = "empty_resolution"
        /\ PlainUserInput(calls[c])
        /\ "all_disabled" \in calls[c].toasts
        /\ calls[c].generated = <<>>
        /\ groups[selected_group].members = <<"a", "b">>
        /\ AllMembersDisabled(groups[selected_group])
        /\ Len(chat) = 2 /\ chat[2] = UserMessage(<<"A", Punct, "A">>)
        /\ ~is_group_generating /\ send_active

\* The step in which call c gets to the group lookup of line 426: at once
\* when it is made on a connected, idle session showing the group panel, or
\* when its navigation delay elapses.
ReachesLookup(c) ==
    \/ /\ calls[c].pc = "none" /\ calls'[c].pc # "none"
       /\ online_status = "connected" /\ ~is_group_generating
       /\ menu_type = "group_edit"
    \/ calls[c].pc = "navDelay" /\ calls'[c].pc # "navDelay"

\* C20: a call that gets to the group lookup while the selected group is
\* missing or has no members ends there with the "no members" notice, for
\* every request kind and with or without a forced member: the generating
\* flag, the chat, the textbox and the send button stay as they were, no
\* member is resolved and Generate is not called.
C20_NoMembersShortCircuit ==
    [][\A c \in Calls :
         (ReachesLookup(c) /\ NoMembers(Cur))
             => /\ calls'[c].pc = "done" /\ calls'[c].outcome = "no_members"
                /\ "EMPTY" \in calls'[c].toasts
                /\ calls'[c].activatedMembers = <<>>
                /\ calls'[c].generated = <<>>
                /\ is_group_generating' = is_group_generating
                /\ chat' = chat
                /\ send_textarea' = send_textarea
                /\ is_send_press' = is_send_press
                /\ send_active' = send_active
                /\ this_chid' = this_chid]_vars

C20_Witness ==
    \E c \in Calls :
        /\ calls[c].pc = "done" /\ calls[c].outcome = "no_members"
        /\ calls[c].force_chid # Undefined
        /\ "EMPTY" \in calls[c].toasts
        /\ calls[c].generated = <<>>
        /\ HasGroup(Cur) /\ groups[selected_group].members = <<>>
        /\ ~is_group_generating /\ chat \in InitChats

\* ------------------------------------------------------------- regeneration
\* lines 665-674: the generation id of the last message, 0 for none.
getLastMessageGenerationId(chatLog) ==
    IF Len(chatLog) > 0 /\ ~chatLog[Len(chatLog)].is_user /\ ~chatLog[Len(chatLog)].is_system
    THEN chatLog[Len(chatLog)].gen_id
    ELSE 0

\* A deletion loop that knows the legacy rule only.
RECURSIVE DeleteTrailingLegacyOnly(_, _)
DeleteTrailingLegacyOnly(chatLog, generationId) ==
    IF Len(chatLog) = 0 THEN chatLog
    ELSE LET lastMes == chatLog[Len(chatLog)]
         IN IF lastMes.is_user \/ lastMes.is_system THEN chatLog
            ELSE DeleteTrailingLegacyOnly(SubSeq(chatLog, 1, Len(chatLog) - 1), generationId)

\* The while loop of regenerateGroup, lines 118-132: what is left of the chat.
RECURSIVE DeleteTrailing(_, _)
DeleteTrailing(chatLog, generationId) ==
    IF Len(chatLog) = 0 THEN chatLog
    ELSE LET lastMes == chatLog[Len(chatLog)]
             this_generationId == lastMes.gen_id
         IN IF generationId # 0 /\ this_generationId # 0
               /\ generationId # this_generationId
            THEN chatLog
            ELSE IF lastMes.is_user \/ lastMes.is_system THEN chatLog
            ELSE DeleteTrailing(SubSeq(chatLog, 1, Len(chatLog) - 1), generationId)

\* regenerateGroup, lines 115-135: the trailing messages are deleted and
\* generateGroupWrapper is called without arguments.
regenerateGroup(c) ==
    /\ c = numCalls + 1
    /\ LET S == [Cur EXCEPT !.chat = DeleteTrailing(chat, getLastMessageGenerationId(chat))]
           req == Request(FALSE, "normal", Undefined, NoSignal, FALSE)
       IN \E d \in DrawsNow(S, req) : Becomes(Start(S, c, req, d))

\* The chat logs regenerateGroup is applied to: user, system and character
\* messages, the latter without a generation id or of generation 1 or 2.
GMessages ==
    { UserMessage(T1),
      Message(<<"S">>, FALSE, TRUE, NoAvatar, T1),
      CharMessage(0, T1, 0), CharMessage(0, T1, 1), CharMessage(1, T1, 2) }

InitG ==
    /\ online_status = "connected"
    /\ is_group_generating = FALSE
    /\ selected_group = 1
    /\ menu_type = "group_edit"
    /\ is_send_press = FALSE
    /\ is_group_automode_enabled = FALSE
    /\ groupAutoModeAbortController = NoSignal
    /\ aborted = {}
    /\ chat \in SeqsOver(GMessages, MaxChat)
    /\ this_chid = Undefined
    /\ send_active = TRUE
    /\ textarea_disabled = FALSE
    /\ send_textarea = <<>>
    /\ groups = <<Group(<<"b", "a">>, {}, LIST, FALSE)>>
    /\ settings = [streaming |-> FALSE, multigen |-> FALSE]
    /\ streamingProcessor = "null"
    /\ calls = [c \in Calls |-> NoCall]
    /\ numCalls = 0
    /\ numEvents = 0
    /\ moduleWorker = NewModuleWorker

NextG == regenerateGroup(1)

SpecG == InitG /\ [][NextG]_vars

\* -------------------------------------------------------- ModuleWorkerWrapper
\* update(), lines 105-114: returns at once when busy, else sets the flag
\* and invokes the callback, whose promise is awaited.
update(u) ==
    /\ moduleWorker.updates[u] = "none"
    /\ moduleWorker' =
           IF moduleWorker.isBusy
           THEN [moduleWorker EXCEPT !.updates[u] = "skipped"]
           ELSE [moduleWorker EXCEPT !.isBusy = TRUE, !.updates[u] = "awaiting"]
    /\ UNCHANGED groupChatVars

\* The callback invoked at line 114 throws before returning a promise: the
\* finally block of lines 116-118 runs in the same step.
updateCallbackThrows(u) ==
    /\ moduleWorker.updates[u] = "none"
    /\ ~moduleWorker.isBusy
    /\ moduleWorker' = [moduleWorker EXCEPT !.isBusy = FALSE, !.updates[u] = "threw"]
    /\ UNCHANGED groupChatVars

\* The awaited callback resolves; finally block, lines 116-118.
CallbackResolves(u) ==
    /\ moduleWorker.updates[u] = "awaiting"
    /\ moduleWorker' = [moduleWorker EXCEPT !.isBusy = FALSE, !.updates[u] = "done"]
    /\ UNCHANGED groupChatVars

\* A rejection that leaves the flag set.
CallbackRejectsNoFinally(u) ==
    /\ moduleWorker.updates[u] = "awaiting"
    /\ moduleWorker' = [moduleWorker EXCEPT !.updates[u] = "threw"]
    /\ UNCHANGED groupChatVars

\* The awaited callback rejects; finally block, lines 116-118.
CallbackRejects(u) ==
    /\ moduleWorker.updates[u] = "awaiting"
    /\ moduleWorker' = [moduleWorker EXCEPT !.isBusy = FALSE, !.updates[u] = "threw"]
    /\ UNCHANGED groupChatVars

NextW ==
    \/ \E u \in Updates : update(u)
    \/ \E u \in Updates : updateCallbackThrows(u)
    \/ \E u \in Updates : CallbackResolves(u)
    \/ \E u \in Updates : CallbackRejects(u)

\* A fresh wrapper; the group-chat state stays as loaded.
InitW == InitG /\ chat = <<>>

SpecW == InitW /\ [][NextW]_vars

\* ------------------------------------------------------------------ liveness
\* Every await of a cycle settles: the timers of lines 568-638 fire, the
\* forwarded user message is sent, the awaited Generate call returns or
\* throws, and the generation it started ends one way or the other.
\* One invocation is followed: a pending await inside its try block settles
\* (CycleStep) and a running generation ends (GenerationSettles).
CycleStep(c) ==
    \/ AfterSendUser(c)
    \/ GenerateReturns(c)
    \/ GenerateThrows(c)
    \/ PollTick(c)

GenerationSettles(c) == GenerationCompletes(c) \/ GenerationFails(c)

NextL ==
    \/ generateGroupWrapper(1)
    \/ AfterNavDelay(1)
    \/ AfterSendUser(1)
    \/ GenerateReturns(1)
    \/ GenerateThrows(1)
    \/ PollTick(1)
    \/ GenerationCompletes(1)
    \/ GenerationFails(1)
    \/ AbortSignal(1)
    \/ onSendTextareaInput
    \/ NavigateAway
    \/ resetSelectedGroup
    \/ \E g \in {1} : selectGroup(g)
    \/ \E chid \in {0} : openCharacterDefinition(chid)
    \/ onDeleteGroupClick

Fairness == WF_vars(CycleStep(1)) /\ WF_vars(GenerationSettles(1))

\* The completion modes: default, streaming and multigen (streaming is off
\* whenever multigen is on).
Modes ==
    { [streaming |-> FALSE, multigen |-> FALSE],
      [streaming |-> TRUE, multigen |-> FALSE],
      [streaming |-> FALSE, multigen |-> TRUE] }

InitL ==
    /\ online_status = "connected"
    /\ is_group_generating = FALSE
    /\ selected_group = 1
    /\ menu_type = "group_edit"
    /\ is_send_press = FALSE
    /\ is_group_automode_enabled = FALSE
    /\ groupAutoModeAbortController = NoSignal
    /\ aborted = {}
    /\ chat \in InitChats
    /\ this_chid = Undefined
    /\ send_active = TRUE
    /\ textarea_disabled = FALSE
    /\ send_textarea = <<>>
    /\ \E g \in SeqGroups : groups = <<g>>
    /\ settings \in Modes
    /\ streamingProcessor = "null"
    /\ calls = [c \in Calls |-> NoCall]
    /\ numCalls = 0
    /\ numEvents = 0
    /\ moduleWorker = NewModuleWorker

SpecL == InitL /\ [][NextL]_vars /\ Fairness

\* C21: every cycle that has entered the try block (it waits for the send
\* of the forwarded input, for Generate or in the poll loop) eventually
\* ends, with the generating flag cleared by its finally block.
C21_CycleEventuallyIdle ==
    InCycle(calls[1]) ~> (calls[1].pc = "done" /\ ~is_group_generating)

\* The step in which the poll loop reports the turn of the current member of
\* call c complete: it goes on to the next member or ends the cycle.
TurnReportedComplete(c) ==
    /\ calls[c].pc \in {"genAwait", "poll"}
    /\ \/ calls'[c].idx > calls[c].idx
       \/ calls'[c].pc = "done" /\ calls'[c].outcome = "completed"

DefaultMode(call) ==
    call.generateType = "group_chat" /\ ~settings.streaming /\ ~settings.multigen

\* C22: in default mode a member's turn is reported complete only when the
\* chat holds more messages than at the start of that turn (the user's own
\* message counted), never while the count is unchanged or lower.
C22_DefaultCompletionNeedsNewMessage ==
    [][\A c \in Calls :
         (TurnReportedComplete(c) /\ DefaultMode(calls[c]))
             => Len(chat) > calls[c].turnStart]_vars

\* The modes whose completion signal is the done flag: quiet requests and
\* every request while multigen is on.
FlagMode(call) == call.type = "quiet" \/ settings.multigen

\* C23: in quiet mode and in multigen mode a turn is reported complete only
\* when the done flag is set and the generation of that turn has ended, its
\* completion or failure callback wrapper having run; the flag is false at
\* each Generate call and goes from false to true only in the step in which
\* the running generation ends and a wrapper is installed.
C23_FlagModesWaitForCallback ==
    [][\A c \in Calls :
         /\ (TurnReportedComplete(c) /\ FlagMode(calls[c]))
                => /\ calls[c].isGenerationDone /\ calls[c].hasCallbacks
                   /\ calls[c].gen \in {"finished", "failed"}
         /\ Len(calls'[c].generated) > Len(calls[c].generated)
                => ~calls'[c].isGenerationDone
         /\ (~calls[c].isGenerationDone /\ calls'[c].isGenerationDone)
                => /\ calls[c].gen = "running" /\ calls'[c].gen \in {"finished", "failed"}
                   /\ calls[c].hasCallbacks]_vars

C23_Witness ==
    /\ settings.multigen
    /\ calls[1].pc = "done" /\ calls[1].outcome = "completed"
    /\ calls[1].hasCallbacks /\ calls[1].generated = <<1, 0>>
    /\ calls[1].gen = "finished"

\* The member m is not banned, is in the registry and has the word w in
\* its name.
NameMatches(m, w, banned) ==
    /\ HasCharacter(m) /\ CharOf(m).name # banned
    /\ \E t \in 1..Len(CharOf(m).name) : CharOf(m).name[t] = w /\ w # Punct

\* The positions of the input words that activate the avatar: the avatar is
\* the first member of the list that the word matches.
WordsActivating(members, avatar, words, banned) ==
    {i \in 1..Len(words) :
        \E k \in 1..Len(members) :
            /\ members[k] = avatar /\ NameMatches(avatar, words[i], banned)
            /\ \A j \in 1..(k - 1) : ~NameMatches(members[j], words[i], banned)}

Min(S) == CHOOSE x \in S : \A y \in S : x <= y

\* r holds every mentioned member once, the mentioned members first and in
\* the order of the first word that activates each.
MentionedFirst(r, members, words, banned) ==
    LET key(id) == WordsActivating(members, characters[id + 1].avatar, words, banned)
        mentioned == {id \in 0..(Len(characters) - 1) : key(id) # {}}
    IN /\ NoDuplicates(r)
       /\ mentioned \subseteq {r[i] : i \in 1..Len(r)}
       /\ \A i, j \in 1..Len(r) :
              (i < j /\ r[j] \in mentioned)
                  => r[i] \in mentioned /\ Min(key(r[i])) < Min(key(r[j]))

C25_OnlyPlainInputForwarded ==
    [][\A c \in Calls :
         (/\ calls[c].pc = "sendUser" /\ calls'[c].pc # "sendUser"
          /\ calls[c].userInput # <<>>
          /\ (calls[c].by_auto_mode \/ calls[c].type \in {"impersonate", "quiet"}))
         => chat' = chat]_vars

\* The step in which call c calls Generate for its next member.
GenerateCalled(c) == Len(calls'[c].generated) > Len(calls[c].generated)

\* C26: while the generating flag is set, selecting a group, opening a
\* character definition and deleting the group change nothing; and at every
\* Generate call the active character is the member generated for and the
\* selected group is still group 1, the one every cycle starts with.
C26_ContextOwnedBySequencer ==
    [][/\ is_group_generating
            => /\ selectGroup(1) => UNCHANGED vars
               /\ openCharacterDefinition(0) => UNCHANGED vars
               /\ onDeleteGroupClick => UNCHANGED vars
       /\ \A c \in Calls :
            GenerateCalled(c)
                => /\ this_chid' = calls'[c].generated[Len(calls'[c].generated)]
                   /\ selected_group' = 1]_vars

\* C27: whatever the request kind, the poll loop does not report the turn
\* of the current member complete (going on to the next member, or to the
\* cleanup and Idle) while the generation dispatched for that member is
\* still running.
C27_NoCompletionWhileRunning ==
    [][\A c \in Calls : TurnReportedComplete(c) => calls[c].gen # "running"]_vars

\* C28: the resolution of a swipe or continue request without a forced
\* member activates only characters that are members of the selected group
\* at that moment, whether the last message carries an author tag or not.
C28_SwipeActivatesMembersOnly ==
    [][\A c \in Calls :
          (/\ calls[c].pc \in {"none", "navDelay"}
           /\ calls'[c].pc \notin {"none", "navDelay"}
           /\ Resolved(calls'[c])
           /\ calls'[c].type \in {"swipe", "continue"}
           /\ calls'[c].force_chid = Undefined
           /\ HasGroup(Cur) /\ Len(chat) > 0)
          => \A i \in 1..Len(calls'[c].activatedMembers) :
                 \E k \in 1..Len(groups[selected_group].members) :
                     findIndex(groups[selected_group].members[k])
                         = calls'[c].activatedMembers[i]]_vars

\* The message stops the deletion loop started with generation id g (0 for
\* none): it is a user or system message, or it carries another id.
StopsDeletion(m, g) ==
    m.is_user \/ m.is_system \/ (g # 0 /\ m.gen_id # 0 /\ m.gen_id # g)

\* C29: regenerateGroup leaves a prefix of the chat; the messages it deleted
\* are character messages none of which carries a generation id other than
\* that of the last message; it stops at the first message from the end that
\* is a user or system message or carries another generation id (or at the
\* empty chat); and it then makes exactly one generateGroupWrapper call,
\* which on the idle session starts a cycle for the first listed member.
C29_RegenerateDeletesTrailingRun ==
    [][\A c \in Calls :
         regenerateGroup(c)
         => LET g == IF Len(chat) > 0 /\ ~chat[Len(chat)].is_user
                        /\ ~chat[Len(chat)].is_system
                     THEN chat[Len(chat)].gen_id ELSE 0
                n == Len(chat')
            IN /\ n <= Len(chat) /\ chat' = SubSeq(chat, 1, n)
               /\ \A i \in (n + 1)..Len(chat) : ~StopsDeletion(chat[i], g)
               /\ n > 0 => StopsDeletion(chat[n], g)
               /\ numCalls' = numCalls + 1
               /\ calls'[c].pc = "genAwait" /\ calls'[c].generated = <<1>>
               /\ \A k \in Calls \ {c} : calls'[k] = calls[k]]_vars

C29_Witness ==
    /\ numCalls = 1 /\ calls[1].pc = "genAwait" /\ calls[1].type = "normal"
    /\ ~calls[1].hasCallbacks
    /\ chat = <<UserMessage(T1), CharMessage(0, T1, 1)>>

\* The update() calls whose callback has been invoked and has not settled.
CallbacksRunning == {u \in Updates : moduleWorker.updates[u] = "awaiting"}

\* C30: at most one callback of the wrapper runs at a time and the busy flag
\* is set exactly while one runs, so that it is clear again once the
\* callback has settled, by resolving or by throwing; an update() made
\* while the flag is set returns without invoking the callback, and one made
\* while it is clear invokes it.
C30_UpdateNeverOverlaps ==
    [][/\ Cardinality(CallbacksRunning) <= 1
       /\ moduleWorker.isBusy <=> CallbacksRunning # {}
       /\ Cardinality(CallbacksRunning)' <= 1
       /\ moduleWorker'.isBusy <=> CallbacksRunning' # {}
       /\ \A u \in Updates :
             /\ (moduleWorker.updates[u] = "none" /\ moduleWorker'.updates[u] # "none")
                    => IF CallbacksRunning # {}
                       THEN /\ moduleWorker'.updates[u] = "skipped"
                            /\ moduleWorker'.isBusy
                       ELSE moduleWorker'.updates[u] \in {"awaiting", "threw"}
             /\ (moduleWorker.updates[u] = "awaiting" /\ moduleWorker'.updates[u] # "awaiting")
                    => ~moduleWorker'.isBusy]_vars

C30_Witness ==
    /\ moduleWorker.updates[1] = "threw" /\ moduleWorker.updates[2] = "skipped"
    /\ moduleWorker.updates[3] = "done" /\ moduleWorker.updates[4] = "awaiting"
    /\ moduleWorker.isBusy

====
